---- MODULE Spec2Model ----
(***************************************************************************)
(* Hetzner VM Snapshot Manager (src/hetzner_vm_snapshot.py).               *)
(*                                                                         *)
(* The model covers the API client (make_api_request), the snapshot        *)
(* listing (get_snapshots: pagination loop, association filter, sort), the *)
(* action poller (wait_for_snapshot_completion), the server list           *)
(* (get_servers) and the interactive session (__main__, main_menu,         *)
(* manage_vm, create_snapshot, delete_snapshot).                           *)
(*                                                                         *)
(* Text is a sequence of one-character strings.  A JSON object is a        *)
(* function from key names to values, so that "key in dict" is membership  *)
(* in DOMAIN and dict.get(key, default) is Get below.                      *)
(***************************************************************************)
EXTENDS Integers, Sequences, FiniteSets, TLC

VARIABLES
    \* make_api_request on its own
    api_response,      \* the HTTP response it was given (status, body)
    api_outcome,       \* what it made of it
    \* get_snapshots
    pc,                \* position of the listing
    server,            \* the server the listing is for: [id, name]
    page,              \* local variable page
    all_snapshots,     \* local variable all_snapshots
    requests,          \* page numbers requested so far, in order
    received,          \* the images of each page received, in order
    reported,          \* the last_page each response reported, in order
    included,          \* "Including snapshot ..." lines: [snapshot, reason]
    result,            \* the return value of get_snapshots
    \* wait_for_snapshot_completion
    poller,            \* position/state of the poller
    now,               \* time.time()
    start_time,        \* local variable start_time
    polls,             \* GET /actions/{id} requests issued
    sleeps,            \* time.sleep(5) calls made
    running_seen,      \* polls answered with a non-terminal status
    last_action,       \* the action record of the last poll
    completed,         \* the progress bar's completed value
    shown_error,       \* what console.print_json displayed
    \* a second run of wait_for_snapshot_completion beside the first
    twin_poller,       \* its position/state
    twin_polls,        \* its GET /actions/{id} requests
    twin_completed,    \* its progress bar's completed value
    \* get_servers
    servers_pc,        \* how the last call of get_servers ended
    listed,            \* response["servers"] as the provider sent it
    servers,           \* the return value of get_servers
    \* the process: __main__, main_menu, manage_vm
    proc,              \* position of the process
    exit_status,       \* <<>> while it runs, <<status>> once it has ended
    exit_cause,        \* what ended it
    api_token,         \* global API_TOKEN
    use_keychain,      \* global USE_KEYCHAIN
    vm,                \* manage_vm's server
    vm_snapshots,      \* manage_vm's snapshots (what display_snapshots returned)
    n_requests,        \* requests the process has issued
    last_call,         \* the last request and how make_api_request ended
    trigger_reply,     \* create_snapshot's response (what the POST returned)
    message,           \* the last line printed about an operation's outcome
    snapshot_id,       \* manage_vm's snapshot_id (the one the confirmation names)
    confirm            \* manage_vm's confirm (the answer to the confirmation)

apiVars  == <<api_response, api_outcome>>
listVars == <<pc, server, page, all_snapshots, requests, received, reported,
              included, result>>
pollVars == <<poller, now, start_time, polls, sleeps, running_seen,
              last_action, completed, shown_error>>
twinVars == <<twin_poller, twin_polls, twin_completed>>
serverVars  == <<servers_pc, listed, servers>>
deleteVars  == <<snapshot_id, confirm>>
sessionVars == <<proc, exit_status, exit_cause, api_token, use_keychain, vm,
                 vm_snapshots, n_requests, last_call, trigger_reply, message,
                 deleteVars>>
vars     == <<apiVars, listVars, pollVars, twinVars, serverVars, sessionVars>>

(***************************************************************************)
(* Bounds of the model.                                                    *)
(***************************************************************************)
MaxPages == 3        \* the provider reports a last_page of at most MaxPages
MaxServers == 3      \* the provider lists at most MaxServers servers
MaxRequests == 5     \* a session issues at most MaxRequests requests

(***************************************************************************)
(* Python values.                                                          *)
(***************************************************************************)
None == [t |-> "None"]

\* dict.get(key, default)
Get(d, key, default) == IF key \in DOMAIN d THEN d[key] ELSE default

EmptyDict == [k \in {} |-> None]

Range(s) == {s[i] : i \in 1..Len(s)}

Count(x, s) == Cardinality({i \in 1..Len(s) : s[i] = x})

RECURSIVE Flatten(_)
Flatten(ss) == IF ss = <<>> THEN <<>> ELSE Head(ss) \o Flatten(Tail(ss))

(***************************************************************************)
(* Text: str.lower(), str(int), "needle in haystack", string comparison.   *)
(***************************************************************************)
UpperCase == <<"A","B","C","D","E","F","G","H","I","J","K","L","M",
               "N","O","P","Q","R","S","T","U","V","W","X","Y","Z">>
LowerCase == <<"a","b","c","d","e","f","g","h","i","j","k","l","m",
               "n","o","p","q","r","s","t","u","v","w","x","y","z">>
Digits == <<"0","1","2","3","4","5","6","7","8","9">>

LowerChar(c) ==
    IF \E i \in 1..26 : UpperCase[i] = c
    THEN LowerCase[CHOOSE i \in 1..26 : UpperCase[i] = c]
    ELSE c

\* str.lower()
Lower(s) == [i \in 1..Len(s) |-> LowerChar(s[i])]

\* str(n) for n >= 0
RECURSIVE Str(_)
Str(n) == IF n < 10 THEN <<Digits[n + 1]>>
          ELSE Str(n \div 10) \o <<Digits[(n % 10) + 1]>>

\* needle in haystack
In(needle, hay) ==
    \E i \in 0..(Len(hay) - Len(needle)) :
        SubSeq(hay, i + 1, i + Len(needle)) = needle

\* The characters of the model in code point order.
CodeOrder == <<" ", "+", "-">> \o Digits \o <<":">> \o UpperCase \o LowerCase
Ord(c) == CHOOSE i \in 1..Len(CodeOrder) : CodeOrder[i] = c

\* a < b on str: the first differing character decides, a proper prefix is less
RECURSIVE StrLess(_, _)
StrLess(a, b) ==
    IF b = <<>> THEN FALSE
    ELSE IF a = <<>> THEN TRUE
    ELSE IF Head(a) = Head(b) THEN StrLess(Tail(a), Tail(b))
    ELSE Ord(Head(a)) < Ord(Head(b))

(***************************************************************************)
(* make_api_request.  An HTTP response is [status, body]; the body is      *)
(* empty text, text that is not JSON, or the JSON text of an object        *)
(* (kept as the object it decodes to).                                     *)
(***************************************************************************)
EmptyBody   == [kind |-> "empty"]
InvalidBody(txt) == [kind |-> "invalid", text |-> txt]
JsonBody(obj) == [kind |-> "json", data |-> obj]

Http(status, body) == [status |-> status, body |-> body]

\* The outcomes: a return value, or sys.exit(1) after one of three messages.
Returned(v)   == [kind |-> "return", value |-> v]
ExitEmpty     == [kind |-> "exit", code |-> 1, error |-> "empty response"]
ExitInvalid   == [kind |-> "exit", code |-> 1, error |-> "invalid json"]
ExitApi(msg)  == [kind |-> "exit", code |-> 1, error |-> "api error",
                  message |-> msg]

make_api_request_204_late(response) ==
    IF response.body.kind = "empty" THEN ExitEmpty
    ELSE IF response.status = 204 THEN Returned(None)
    ELSE IF response.body.kind = "invalid" THEN ExitInvalid
    ELSE IF "error" \in DOMAIN response.body.data
         THEN ExitApi(response.body.data["error"]["message"])
    ELSE Returned(response.body.data)

make_api_request(response) ==
    IF response.status = 204 THEN Returned(None)
    ELSE IF response.body.kind = "empty" THEN ExitEmpty
    ELSE IF response.body.kind = "invalid" THEN ExitInvalid
    ELSE IF "error" \in DOMAIN response.body.data
         THEN ExitApi(response.body.data["error"]["message"])
    ELSE Returned(response.body.data)

\* Responses that make every request fail or return None, whatever it asked.
ErrorEnvelope(msg) == "error" :> ("message" :> msg)

FailingResponses ==
    { Http(401, EmptyBody),
      Http(502, InvalidBody("<html>")),
      Http(403, JsonBody(ErrorEnvelope("forbidden"))),
      Http(204, EmptyBody) }

(***************************************************************************)
(* The states in which an operation is not running.                        *)
(***************************************************************************)
NoResponse == [status |-> 0, body |-> EmptyBody]
NoServer   == [id |-> 0, name |-> <<>>]
NoAction   == [status |-> "", progress |-> 0, error |-> None]

ApiIdle ==
    /\ api_response = NoResponse
    /\ api_outcome = None

ListIdle ==
    /\ pc = "idle"
    /\ server = NoServer
    /\ page = 0
    /\ all_snapshots = <<>>
    /\ requests = <<>>
    /\ received = <<>>
    /\ reported = <<>>
    /\ included = <<>>
    /\ result = <<>>

PollIdle ==
    /\ poller = "idle"
    /\ now = 0
    /\ start_time = 0
    /\ polls = 0
    /\ sleeps = 0
    /\ running_seen = 0
    /\ last_action = NoAction
    /\ completed = 0
    /\ shown_error = None

TwinIdle ==
    /\ twin_poller = "idle"
    /\ twin_polls = 0
    /\ twin_completed = 0

ServersIdle ==
    /\ servers_pc = "idle"
    /\ listed = <<>>
    /\ servers = <<>>

NoCall  == [method |-> "", what |-> "", id |-> 0, outcome |-> ""]
NoReply == [t |-> "no reply"]

SessionIdle ==
    /\ proc = "idle"
    /\ exit_status = <<>>
    /\ exit_cause = ""
    /\ api_token = ""
    /\ use_keychain = FALSE
    /\ vm = NoServer
    /\ vm_snapshots = <<>>
    /\ n_requests = 0
    /\ last_call = NoCall
    /\ trigger_reply = NoReply
    /\ message = ""
    /\ snapshot_id = 0
    /\ confirm = <<>>

\* Nothing but the operation a specification is about is running.
OthersIdle == TwinIdle /\ ServersIdle /\ SessionIdle

(***************************************************************************)
(* The API client on its own: one request per step, any response.          *)
(***************************************************************************)
StatusCodes == {200, 201, 204, 401, 404, 500}

Payloads ==
    { EmptyDict,
      "servers" :> <<>>,
      "images" :> <<>>,
      "action" :> [id |-> 7] }

ErrorMessages == {"forbidden", "not found", "x"}

JsonObjects ==
    Payloads \cup {ErrorEnvelope(m) @@ p : m \in ErrorMessages, p \in Payloads}

Bodies ==
    {EmptyBody, InvalidBody("<html>"), InvalidBody(" ")}
        \cup {JsonBody(obj) : obj \in JsonObjects}

ApiResponses == {Http(st, b) : st \in StatusCodes, b \in Bodies}

Request ==
    /\ \E response \in ApiResponses :
          /\ api_response' = response
          /\ api_outcome' = make_api_request(response)
    /\ UNCHANGED <<listVars, pollVars, twinVars, serverVars, sessionVars>>

InitApi == ApiIdle /\ ListIdle /\ PollIdle /\ OthersIdle

NextApi == Request

SpecApi == InitApi /\ [][NextApi]_vars

\* C10: make_api_request classifies every response into exactly one outcome:
\* status 204 returns None whatever the body; otherwise an empty body exits
\* with the empty-response (credential) diagnostic; otherwise a body that is
\* not JSON exits with the invalid-JSON diagnostic; otherwise an object with
\* an error envelope exits with that envelope's message; otherwise the decoded
\* object is returned unchanged.
ApiClassification ==
    api_response # NoResponse =>
        LET r == api_response
            o == api_outcome
        IN  /\ r.status = 204 => o = Returned(None)
            /\ (r.status # 204 /\ r.body.kind = "empty") =>
                  (o.kind = "exit" /\ o.error = "empty response")
            /\ (r.status # 204 /\ r.body.kind = "invalid") =>
                  (o.kind = "exit" /\ o.error = "invalid json")
            /\ (r.status # 204 /\ r.body.kind = "json"
                    /\ "error" \in DOMAIN r.body.data) =>
                  /\ o.kind = "exit"
                  /\ o.error = "api error"
                  /\ o.message = r.body.data["error"]["message"]
            /\ (r.status # 204 /\ r.body.kind = "json"
                    /\ "error" \notin DOMAIN r.body.data) =>
                  o = Returned(r.body.data)

\* A 204 response with an empty body has returned None.
ApiNoContentWitness ==
    /\ api_response.status = 204
    /\ api_response.body = EmptyBody
    /\ api_outcome = Returned(None)

(***************************************************************************)
(* get_snapshots, first part: the pagination loop (lines 129-138).         *)
(***************************************************************************)
\* JSON values a provider may put in last_page.  A float is kept as twice its
\* value, so that 2.5 is JFloat(5).
JInt(n)     == [t |-> "int", v |-> n]
JFloat(t2)  == [t |-> "float", twice |-> t2]
JStr(txt)   == [t |-> "str", v |-> txt]
JNull       == None
Absent      == [t |-> "absent"]

\* page > last_page in place of page >= last_page.
PageGt(p, last_page) ==
    CASE last_page.t = "int"   -> IF p > last_page.v THEN "True" ELSE "False"
      [] last_page.t = "float" -> IF 2 * p > last_page.twice THEN "True" ELSE "False"
      [] OTHER                 -> "TypeError"

\* page >= last_page: int against int or float compares, anything else raises
\* TypeError.
PageGe(p, last_page) ==
    CASE last_page.t = "int"   -> IF p >= last_page.v THEN "True" ELSE "False"
      [] last_page.t = "float" -> IF 2 * p >= last_page.twice THEN "True" ELSE "False"
      [] OTHER                 -> "TypeError"

\* The body of a GET /images response: the images and one of the shapes of
\* the meta block (no meta, no pagination in it, no last_page in that, or a
\* last_page value); or a meta block and no "images" member.
NoMeta       == [t |-> "no meta"]
NoPagination == [t |-> "no pagination"]
NoLastPage   == [t |-> "no last_page"]

MetaPart(meta) ==
    CASE meta = NoMeta       -> EmptyDict
      [] meta = NoPagination -> "meta" :> EmptyDict
      [] meta = NoLastPage   -> "meta" :> ("pagination" :> EmptyDict)
      [] OTHER               -> "meta" :> ("pagination" :> ("last_page" :> meta))

ListingResponses(pages, metas) ==
    {Http(200, JsonBody(("images" :> images) @@ MetaPart(meta))) :
        images \in pages, meta \in metas}
      \cup {Http(200, JsonBody(MetaPart(meta))) : meta \in metas}

\* The loop left after the first page whatever last_page says.
StopsAtAnyPage(p, last_page) ==
    IF last_page.t \in {"int", "float"} THEN "True" ELSE "TypeError"

\* The test of line 136.
LoopStops(p, last_page) == PageGe(p, last_page)

\* What the loop does with one response.
FetchPageOf(responses) ==
    /\ pc = "fetch"
    /\ page <= MaxPages
    /\ \E response \in responses :
          LET out == make_api_request(response) IN
          /\ requests' = Append(requests, page)
          /\ IF out.kind = "exit"
             THEN \* sys.exit(1) inside make_api_request
                  /\ pc' = "exit"
                  /\ UNCHANGED <<page, all_snapshots, received, reported>>
             ELSE IF out.value = None
             THEN \* response.get on None: AttributeError
                  /\ pc' = "crash"
                  /\ UNCHANGED <<page, all_snapshots, received, reported>>
             ELSE LET snapshots  == Get(out.value, "images", <<>>)
                      pagination == Get(Get(out.value, "meta", EmptyDict),
                                        "pagination", EmptyDict)
                      last_page  == Get(pagination, "last_page", JInt(page))
                      stop       == LoopStops(page, last_page)
                  IN  /\ all_snapshots' = all_snapshots \o snapshots
                      /\ received' = Append(received, snapshots)
                      /\ reported' = Append(reported,
                                            Get(pagination, "last_page", Absent))
                      /\ pc' = CASE stop = "TypeError" -> "crash"
                                 [] stop = "True"      -> "filter"
                                 [] OTHER              -> "fetch"
                      /\ page' = IF stop = "False" THEN page + 1 ELSE page
    /\ UNCHANGED <<apiVars, server, included, result, pollVars, twinVars,
                   serverVars>>

(***************************************************************************)
(* get_snapshots, second part: the association filter and the sort         *)
(* (lines 141-172).                                                        *)
(***************************************************************************)
\* include_reason of lines 143-163; NoReason (Python's None) when no rule
\* matches.
NoReason == "None"

\* The rules with the server name compared as it is written.
IncludeReasonNameNotLowered(snapshot, server_id, server_name) ==
    IF "bound_to" \in DOMAIN snapshot /\ snapshot["bound_to"] = server_id
    THEN "Bound to server"
    ELSE IF "created_from" \in DOMAIN snapshot
              /\ "id" \in DOMAIN snapshot["created_from"]
              /\ snapshot["created_from"]["id"] = server_id
    THEN "Created from server"
    ELSE LET description   == Lower(Get(snapshot, "description", <<>>))
             server_id_str == Str(server_id)
         IN  IF In(server_id_str, description) \/ In(server_name, description)
             THEN "Server ID or name in description"
             ELSE NoReason

IncludeReason(snapshot, server_id, server_name) ==
    IF "bound_to" \in DOMAIN snapshot /\ snapshot["bound_to"] = server_id
    THEN "Bound to server"
    ELSE IF "created_from" \in DOMAIN snapshot
              /\ "id" \in DOMAIN snapshot["created_from"]
              /\ snapshot["created_from"]["id"] = server_id
    THEN "Created from server"
    ELSE LET description   == Lower(Get(snapshot, "description", <<>>))
             server_id_str == Str(server_id)
         IN  IF In(server_id_str, description)
                  \/ In(Lower(server_name), description)
             THEN "Server ID or name in description"
             ELSE NoReason

\* The three rules as independent ifs, each appending on its own.
RECURSIVE InclusionsPerRule(_, _, _)
InclusionsPerRule(snapshots, server_id, server_name) ==
    IF snapshots = <<>> THEN <<>>
    ELSE LET snapshot == Head(snapshots)
             d        == Lower(Get(snapshot, "description", <<>>))
             bound    == IF "bound_to" \in DOMAIN snapshot
                            /\ snapshot["bound_to"] = server_id
                         THEN <<[snapshot |-> snapshot, reason |-> "Bound to server"]>>
                         ELSE <<>>
             from     == IF "created_from" \in DOMAIN snapshot
                            /\ "id" \in DOMAIN snapshot["created_from"]
                            /\ snapshot["created_from"]["id"] = server_id
                         THEN <<[snapshot |-> snapshot, reason |-> "Created from server"]>>
                         ELSE <<>>
             text     == IF In(Str(server_id), d) \/ In(Lower(server_name), d)
                         THEN <<[snapshot |-> snapshot,
                                 reason |-> "Server ID or name in description"]>>
                         ELSE <<>>
         IN  bound \o from \o text
                 \o InclusionsPerRule(Tail(snapshots), server_id, server_name)

\* The for loop of lines 142-169: the inclusions, in the order of all_snapshots.
RECURSIVE Inclusions(_, _, _)
Inclusions(snapshots, server_id, server_name) ==
    IF snapshots = <<>> THEN <<>>
    ELSE LET snapshot       == Head(snapshots)
             include_reason == IncludeReason(snapshot, server_id, server_name)
             rest           == Inclusions(Tail(snapshots), server_id, server_name)
         IN  IF include_reason # NoReason
             THEN <<[snapshot |-> snapshot, reason |-> include_reason]>> \o rest
             ELSE rest

\* sorted(..., key=created, reverse=True): a stable sort, greatest key first.
RECURSIVE InsertDesc(_, _)
InsertDesc(x, sorted) ==
    IF sorted = <<>> THEN <<x>>
    ELSE IF StrLess(Head(sorted)["created"], x["created"])
    THEN <<x>> \o sorted
    ELSE <<Head(sorted)>> \o InsertDesc(x, Tail(sorted))

RECURSIVE SortInto(_, _)
SortInto(sorted, rest) ==
    IF rest = <<>> THEN sorted
    ELSE SortInto(InsertDesc(Head(rest), sorted), Tail(rest))

\* The sort without reverse=True.
RECURSIVE InsertAsc(_, _)
InsertAsc(x, sorted) ==
    IF sorted = <<>> THEN <<x>>
    ELSE IF StrLess(x["created"], Head(sorted)["created"])
    THEN <<x>> \o sorted
    ELSE <<Head(sorted)>> \o InsertAsc(x, Tail(sorted))

RECURSIVE SortAscInto(_, _)
SortAscInto(sorted, rest) ==
    IF rest = <<>> THEN sorted
    ELSE SortAscInto(InsertAsc(Head(rest), sorted), Tail(rest))

SortedByCreatedAsc(snapshots) == SortAscInto(<<>>, snapshots)

SortedByCreatedDesc(snapshots) == SortInto(<<>>, snapshots)

Resolve ==
    /\ pc = "filter"
    /\ LET log == Inclusions(all_snapshots, server.id, server.name)
           server_snapshots == [i \in 1..Len(log) |-> log[i].snapshot]
       IN  /\ included' = log
           /\ result' = SortedByCreatedDesc(server_snapshots)
    /\ pc' = "done"
    /\ UNCHANGED <<apiVars, server, page, all_snapshots, requests, received,
                   reported, pollVars, twinVars, serverVars, sessionVars>>

(***************************************************************************)
(* Servers and snapshots of the model.                                     *)
(***************************************************************************)
Web1       == [id |-> 1,   name |-> <<"W","e","b">>]
Db12       == [id |-> 12,  name |-> <<"d","b">>]
TestServer == [id |-> 100, name |-> <<"t","e","s","t","-","s","e","r","v","e","r">>]

\* An ISO-8601 timestamp on day d of January 2023.
Stamp(d) == <<"2","0","2","3","-","0","1","-","0">> \o <<d>> \o <<"T","0","0",":","0","0",":","0","0","+","0","0",":","0","0">>

Snapshot(id, created) == ("id" :> id) @@ ("created" :> created)

\* The pages of the pagination model: none, one or two of two snapshots.
SnapA == Snapshot(1, <<"1","0">>) @@ ("bound_to" :> 1)
SnapB == Snapshot(2, <<"2">>) @@ ("created_from" :> [id |-> 12])
             @@ ("description" :> <<"w","e","b">>)

PagePool == {<<>>, <<SnapA>>, <<SnapA, SnapB>>, <<SnapB, SnapA>>}

\* What a provider may report as last_page: nothing at all, null, text,
\* the float 1.5, or an integer up to MaxPages.
MetaPool ==
    {NoMeta, NoPagination, NoLastPage, JNull, JStr("2")}
        \cup {JInt(n) : n \in -1..MaxPages}
        \cup {JFloat(3)}

\* The snapshots of the association model, for the servers Web1 and Db12.
Catalog ==
    { Snapshot(1, <<"1">>) @@ ("bound_to" :> 1),
      Snapshot(2, <<"1","0">>) @@ ("bound_to" :> 12)
          @@ ("created_from" :> [id |-> 1]) @@ ("description" :> <<"x">>),
      Snapshot(3, <<"1","0">>) @@ ("description" :> <<"f","o","r"," ","W","E","B">>),
      Snapshot(4, <<"2">>) @@ ("description" :> <<"D","B"," ","1","2">>),
      Snapshot(5, <<"1">>) @@ ("description" :> <<"u","n","r","e","l","a","t","e","d">>),
      Snapshot(6, <<"2">>) @@ ("bound_to" :> 1)
          @@ ("created_from" :> [id |-> 1]) @@ ("description" :> <<"w","e","b"," ","1">>),
      Snapshot(7, <<"2","0">>),
      Snapshot(8, <<"1">>) @@ ("created_from" :> [id |-> 12])
          @@ ("description" :> <<"W","e","b">>),
      Snapshot(9, <<"2","0">>) @@ ("created_from" :> EmptyDict)
          @@ ("description" :> <<"d","b">>) }

\* The page of test_get_snapshots (src/test_hetzner_vm_snapshot.py).
TestPage ==
    << Snapshot(1, Stamp("1")) @@ ("bound_to" :> 100)
           @@ ("description" :> <<"S","n","a","p","s","h","o","t"," ","1">>),
       Snapshot(2, Stamp("2")) @@ ("created_from" :> [id |-> 100])
           @@ ("description" :> <<"S","n","a","p","s","h","o","t"," ","2">>),
       Snapshot(3, Stamp("3"))
           @@ ("description" :> <<"S","n","a","p","s","h","o","t"," ","f","o","r"," ","s","e","r","v","e","r"," ","1","0","0">>),
       Snapshot(4, Stamp("4"))
           @@ ("description" :> <<"U","n","r","e","l","a","t","e","d"," ","s","n","a","p","s","h","o","t">>) >>

CatalogPages == {<<>>, TestPage} \cup {<<c>> : c \in Catalog}

\* The provider of the association model serves one or two pages.
HonestMetas == {JInt(1), JInt(2)}

(***************************************************************************)
(* The listing as a state machine.  Spec is the pagination model (every    *)
(* shape of the meta block, pages of two snapshots); SpecResolve is the    *)
(* association model (the catalog above behind an honest provider).        *)
(***************************************************************************)
StartListing(pool) ==
    /\ pc = "fetch"
    /\ server \in pool
    /\ page = 1
    /\ all_snapshots = <<>>
    /\ requests = <<>>
    /\ received = <<>>
    /\ reported = <<>>
    /\ included = <<>>
    /\ result = <<>>

FetchPage ==
    /\ FetchPageOf(FailingResponses \cup ListingResponses(PagePool, MetaPool))
    /\ UNCHANGED sessionVars

FetchCatalogPage ==
    /\ FetchPageOf(FailingResponses \cup ListingResponses(CatalogPages, HonestMetas))
    /\ UNCHANGED sessionVars

Init == ApiIdle /\ PollIdle /\ OthersIdle /\ StartListing({Web1, Db12})

Next == FetchPage \/ Resolve

Spec == Init /\ [][Next]_vars

InitResolve ==
    ApiIdle /\ PollIdle /\ OthersIdle /\ StartListing({Web1, Db12, TestServer})

NextResolve == FetchCatalogPage \/ Resolve

SpecResolve == InitResolve /\ [][NextResolve]_vars

(***************************************************************************)
(* Claims about the listing.                                               *)
(***************************************************************************)
ListingReturned == pc \in {"filter", "done"}

\* Every response so far reported the integer N as last_page.
SteadyLastPage(N) ==
    /\ Len(reported) >= 1
    /\ \A i \in 1..Len(reported) : reported[i] = JInt(N)

\* C1: when every page response reports last_page = N (N >= 1), the
\* pagination loop ends after exactly N requests, for the pages 1, 2, ..., N
\* in that order, and all_snapshots is the concatenation of the pages' images
\* in page order; until then it has requested the pages 1..k for some k <= N.
PaginationFetchesEveryPageOnce ==
    \A N \in 1..MaxPages :
        SteadyLastPage(N) =>
            /\ requests = [i \in 1..Len(requests) |-> i]
            /\ Len(requests) <= N
            /\ all_snapshots = Flatten(received)
            /\ ListingReturned =>
                  /\ requests = [i \in 1..N |-> i]
                  /\ Len(received) = N

\* Three pages of two images each have been fetched with three requests.
ThreePagesOfTwoWitness ==
    /\ ListingReturned
    /\ SteadyLastPage(3)
    /\ requests = <<1, 2, 3>>
    /\ \A i \in 1..3 : Len(received[i]) = 2
    /\ Len(all_snapshots) = 6

\* The last_page values C2 calls absent or malformed.
BadLastPage(v) ==
    \/ v \in {Absent, JNull}
    \/ v.t \in {"str", "float"}
    \/ (v.t = "int" /\ v.v <= 0)

\* C2: when the first page's response has no meta or pagination block, or a
\* last_page that is absent, null, not an integer, zero or negative, the
\* listing ends after exactly one request with exactly that page's images,
\* without failing.
SinglePageOnBadLastPage ==
    (Len(reported) >= 1 /\ BadLastPage(reported[1])) =>
        /\ ListingReturned
        /\ requests = <<1>>
        /\ all_snapshots = received[1]

\* The page p is at or past the last_page v of its own response; a response
\* without last_page counts as its own last page.
PageReached(p, v) ==
    \/ v = Absent
    \/ (v.t = "int" /\ p >= v.v)
    \/ (v.t = "float" /\ 2 * p >= v.twice)

\* C17: a listing never takes an incomplete collection for a complete one: the
\* association filter starts only after a response whose own last_page the
\* page just fetched has reached, also when last_page changes from response
\* to response; after every earlier response, none of which was at its
\* last_page, the loop went on to the next page, and it requests the next
\* page as long as no such response has come.
FilterOnlyAfterLastPage ==
    /\ requests = [i \in 1..Len(requests) |-> i]
    /\ \A i \in 1..(Len(reported) - 1) : ~PageReached(requests[i], reported[i])
    /\ ListingReturned =>
          /\ Len(reported) = Len(requests)
          /\ Len(reported) >= 1
          /\ page = requests[Len(requests)]
          /\ PageReached(page, reported[Len(reported)])
    /\ (pc = "fetch" /\ Len(reported) >= 1) =>
          /\ ~PageReached(requests[Len(requests)], reported[Len(reported)])
          /\ page = requests[Len(requests)] + 1
    /\ (pc # "done") => (included = <<>> /\ result = <<>>)

\* The provider moved last_page from 2 to 3 while the listing ran: three pages
\* were requested before the filter started.
GrowingLastPageWitness ==
    /\ pc = "done"
    /\ requests = <<1, 2, 3>>
    /\ reported = <<JInt(2), JInt(3), JInt(3)>>

\* The association rules as C3 words them.
BoundTo(s)     == "bound_to" \in DOMAIN s /\ s["bound_to"] = server.id
CreatedFrom(s) == /\ "created_from" \in DOMAIN s
                  /\ "id" \in DOMAIN s["created_from"]
                  /\ s["created_from"]["id"] = server.id
DescriptionMatch(s) ==
    LET d == IF "description" \in DOMAIN s THEN Lower(s["description"]) ELSE <<>>
    IN  In(Str(server.id), d) \/ In(Lower(server.name), d)

FirstRule(s) ==
    CASE BoundTo(s)          -> "Bound to server"
      [] CreatedFrom(s)      -> "Created from server"
      [] DescriptionMatch(s) -> "Server ID or name in description"
      [] OTHER               -> NoReason

Ids(snapshots) == [i \in 1..Len(snapshots) |-> snapshots[i]["id"]]

\* C3: a fetched snapshot is in the result iff its bound_to is the server id,
\* or its created_from.id is the server id, or the decimal server id or the
\* lowercased server name is a substring of its lowercased description; the
\* reason recorded is that of the first of these rules that matches; and for
\* the page of test_get_snapshots with server 100 "test-server" exactly the
\* snapshots 1, 2 and 3 are returned.
ResolverIncludesExactlyTheMatches ==
    pc = "done" =>
        /\ \A s \in Range(all_snapshots) :
              (s \in Range(result)) <=>
                  (BoundTo(s) \/ CreatedFrom(s) \/ DescriptionMatch(s))
        /\ Range(result) \subseteq Range(all_snapshots)
        /\ \A i \in 1..Len(included) :
              /\ included[i].snapshot \in Range(result)
              /\ included[i].reason = FirstRule(included[i].snapshot)
        /\ (server = TestServer /\ all_snapshots = TestPage) =>
              Range(Ids(result)) = {1, 2, 3}

\* The test's page has been resolved for the test's server.
TestPageResolvedWitness ==
    /\ pc = "done"
    /\ server = TestServer
    /\ all_snapshots = TestPage
    /\ Ids(result) = <<3, 2, 1>>

\* C4 as stated: every snapshot id occurs at most once in the result.
ResultIdsAreUnique ==
    pc = "done" =>
        \A i, j \in 1..Len(result) :
            result[i]["id"] = result[j]["id"] => i = j

\* C4 as amended: each fetched occurrence of a snapshot is included at most
\* once and under one reason, so a snapshot occurs in the result as often as
\* it was fetched if a rule matches it and not at all otherwise; the ids of
\* the result are unique when the ids fetched are.
ResolverIncludesEachOccurrenceOnce ==
    pc = "done" =>
        /\ Len(included) = Len(result)
        /\ \A s \in Range(all_snapshots) :
              /\ Count(s, result) =
                    IF FirstRule(s) # NoReason THEN Count(s, all_snapshots) ELSE 0
              /\ Cardinality({included[i].reason :
                      i \in {k \in 1..Len(included) : included[k].snapshot = s}}) <= 1
        /\ (\A i, j \in 1..Len(all_snapshots) :
                all_snapshots[i]["id"] = all_snapshots[j]["id"] => i = j)
              => (\A i, j \in 1..Len(result) :
                     result[i]["id"] = result[j]["id"] => i = j)

\* A snapshot that satisfies all three rules is in the result once.
SeveralRulesOnceWitness ==
    /\ pc = "done"
    /\ \E s \in Range(all_snapshots) :
          /\ BoundTo(s) /\ CreatedFrom(s) /\ DescriptionMatch(s)
          /\ Count(s, result) = 1
          /\ Len(all_snapshots) = 2

\* C5: the result is sorted by created, most recent first (no element's
\* created is less than its successor's), and is a permutation of the
\* included snapshots.
ResultSortedByCreatedDescending ==
    pc = "done" =>
        /\ \A i \in 1..(Len(result) - 1) :
              ~StrLess(result[i]["created"], result[i + 1]["created"])
        /\ Len(result) = Len(included)
        /\ \A i \in 1..Len(included) :
              Count(included[i].snapshot, result)
                  = Cardinality({k \in 1..Len(included) :
                                    included[k].snapshot = included[i].snapshot})

\* The sort has reordered a result of at least three snapshots.
SortReorderedWitness ==
    /\ pc = "done"
    /\ Len(result) >= 3
    /\ result # [i \in 1..Len(included) |-> included[i].snapshot]
    /\ \E i \in 1..(Len(result) - 1) :
          StrLess(result[i + 1]["created"], result[i]["created"])

(***************************************************************************)
(* wait_for_snapshot_completion (lines 282-309).  Time is in seconds.      *)
(***************************************************************************)
Timeout == 3600
PollInterval == 5

\* json.dumps of an action's error member (null, or an object of strings),
\* as the sequence of its tokens, and the parse of it that print_json shows.
RECURSIVE DumpMembers(_, _)
DumpMembers(obj, keys) ==
    IF keys = {} THEN <<>>
    ELSE LET k == CHOOSE x \in keys : TRUE
         IN  <<k, obj[k]>> \o DumpMembers(obj, keys \ {k})

JsonDumps(v) ==
    IF v = None THEN <<"null">>
    ELSE <<"{">> \o DumpMembers(v, DOMAIN v) \o <<"}">>

JsonLoads(tokens) ==
    IF tokens = <<"null">> THEN None
    ELSE LET n == (Len(tokens) - 2) \div 2
         IN  [k \in {tokens[2 * i] : i \in 1..n} |->
                 tokens[1 + 2 * (CHOOSE i \in 1..n : tokens[2 * i] = k)]]

\* The error details without the error code.
PrintJsonMessageOnly(action) ==
    IF action["error"] = None THEN None
    ELSE [k \in DOMAIN action["error"] \ {"code"} |-> action["error"][k]]

\* console.print_json(json.dumps(action_status["action"]["error"]))
PrintJson(action) == JsonLoads(JsonDumps(action["error"]))

\* The progress bar is left where the provider's last report put it.
FinalProgressAsReported(current_progress) == current_progress

\* progress.update(task, completed=100) on success
FinalProgress(current_progress) == 100

\* A status of "error" is taken for one more running status.
AfterPollErrorGoesOn(status, elapsed) ==
    IF status = "success" THEN "success"
    ELSE IF elapsed > Timeout THEN "timeout"
    ELSE "sleep"

\* The deadline test with >= in place of >.
AfterPollAtDeadline(status, elapsed) ==
    IF status = "success" THEN "success"
    ELSE IF status = "error" THEN "error"
    ELSE IF elapsed >= Timeout THEN "timeout"
    ELSE "sleep"

\* The loop without the deadline test of lines 305-307.
AfterPollNoDeadline(status, elapsed) ==
    IF status = "success" THEN "success"
    ELSE IF status = "error" THEN "error"
    ELSE "sleep"

\* The deadline tested before the status.
AfterPollDeadlineFirst(status, elapsed) ==
    IF elapsed > Timeout THEN "timeout"
    ELSE IF status = "success" THEN "success"
    ELSE IF status = "error" THEN "error"
    ELSE "sleep"

\* Where one iteration goes after its poll (lines 295-309): return on
\* success, return on error, return on timeout, else sleep.
AfterPoll(status, elapsed) ==
    IF status = "success" THEN "success"
    ELSE IF status = "error" THEN "error"
    ELSE IF elapsed > Timeout THEN "timeout"
    ELSE "sleep"

\* The progress bar at 100 taken for the end of the action.
OutcomeByProgress(action, elapsed) ==
    IF action["progress"] >= 100 THEN "success"
    ELSE AfterPoll(action["status"], elapsed)

\* What one iteration makes of the action record it polled (lines 290-307):
\* only its status and the elapsed time are looked at.
Outcome(action, elapsed) == AfterPoll(action["status"], elapsed)

\* What the provider may answer to GET /actions/{id}.
Statuses == {"running", "pending", "success", "error"}
ProgressValues == {0, 10, 60, 100}
ErrorPayloads ==
    { None,
      [code |-> "server_error", message |-> "disk full"],
      [code |-> "action_failed", message |-> "image limit"] }

Actions ==
    {[id |-> 7, status |-> st, progress |-> pr, error |-> None] :
        st \in Statuses, pr \in ProgressValues}
      \cup {[id |-> 7, status |-> "error", progress |-> pr, error |-> e] :
               pr \in ProgressValues, e \in ErrorPayloads}

ActionResponses == {Http(200, JsonBody("action" :> a)) : a \in Actions}

\* Seconds a request may take, and seconds a sleep may overrun.
Latencies == {0, 1800}
Oversleep == {0}

\* One iteration up to its return or its sleep (lines 289-307).
PollOf(responses, latencies) ==
    /\ poller = "poll"
    /\ \E response \in responses, latency \in latencies :
          LET out == make_api_request(response) IN
          /\ polls' = polls + 1
          /\ now' = now + latency
          /\ IF out.kind = "exit"
             THEN \* sys.exit(1) inside make_api_request
                  /\ poller' = "exit"
                  /\ UNCHANGED <<running_seen, last_action, completed, shown_error>>
             ELSE IF out.value = None
             THEN \* None["action"]: TypeError
                  /\ poller' = "crash"
                  /\ UNCHANGED <<running_seen, last_action, completed, shown_error>>
             ELSE LET action           == out.value["action"]
                      status           == action["status"]
                      current_progress == action["progress"]
                      next             == Outcome(action, now' - start_time)
                  IN  /\ last_action' = action
                      /\ poller' = next
                      /\ completed' = IF next = "success"
                                      THEN FinalProgress(current_progress)
                                      ELSE current_progress
                      /\ shown_error' = IF next = "error"
                                        THEN PrintJson(action)
                                        ELSE shown_error
                      /\ running_seen' = IF status \in {"success", "error"}
                                         THEN running_seen
                                         ELSE running_seen + 1
    /\ UNCHANGED <<apiVars, listVars, serverVars, start_time, sleeps>>

Poll ==
    /\ PollOf(FailingResponses \cup ActionResponses, Latencies)
    /\ UNCHANGED <<twinVars, sessionVars>>

\* time.sleep(5) (line 309)
SleepFor(oversleeps) ==
    /\ poller = "sleep"
    /\ \E over \in oversleeps : now' = now + PollInterval + over
    /\ sleeps' = sleeps + 1
    /\ poller' = "poll"
    /\ UNCHANGED <<apiVars, listVars, serverVars, start_time, polls,
                   running_seen, last_action, completed, shown_error>>

Sleep ==
    /\ SleepFor(Oversleep)
    /\ UNCHANGED <<twinVars, sessionVars>>

\* After lines 282-286: start_time taken, the progress bar at 0.
StartPolling ==
    /\ poller = "poll"
    /\ now \in {1000}
    /\ start_time = now
    /\ polls = 0
    /\ sleeps = 0
    /\ running_seen = 0
    /\ last_action = NoAction
    /\ completed = 0
    /\ shown_error = None

InitPoll == ApiIdle /\ ListIdle /\ OthersIdle /\ StartPolling

NextPoll == Poll \/ Sleep

SpecPoll == InitPoll /\ [][NextPoll]_vars

\* Every request returns and every sleep ends.
FairSpecPoll == SpecPoll /\ WF_vars(Poll) /\ WF_vars(Sleep)

(***************************************************************************)
(* Claims about the poller.                                                *)
(***************************************************************************)
Terminal == {"success", "error", "timeout"}

Elapsed == now - start_time

\* C6: after k polls answered with a non-terminal status and one answered
\* "success", the poller has issued exactly k + 1 requests, is in the success
\* state, and the progress it last reported is 100, whatever progress came
\* with the success status.
SuccessAfterRunningPolls ==
    poller = "success" =>
        /\ last_action["status"] = "success"
        /\ polls = running_seen + 1
        /\ completed = 100

\* running, running, success with a progress other than 100: three polls.
SuccessAtThirdPollWitness ==
    /\ poller = "success"
    /\ running_seen = 2
    /\ polls = 3
    /\ last_action["progress"] = 60
    /\ completed = 100

\* C7: when every poll is answered with a non-terminal status, the poller
\* ends in the timeout state: it declares the timeout at a poll after which
\* more than Timeout seconds have passed since start_time and at no earlier
\* one, it has then seen no terminal status, it issues no request afterwards,
\* and it does get there.
TimeoutOnlyRunning ==
    /\ [](poller = "timeout" =>
            /\ Elapsed > Timeout
            /\ running_seen = polls
            /\ last_action["status"] \notin {"success", "error"})
    /\ [](poller = "sleep" => Elapsed <= Timeout)
    /\ [][(poller = "timeout") => (polls' = polls /\ poller' = "timeout")]_vars
    /\ <>(poller = "timeout" \/ running_seen < polls)

\* Polled every five seconds for the whole hour, then timed out.
TimeoutAfterFullWaitWitness ==
    /\ poller = "timeout"
    /\ sleeps = 721
    /\ polls = 722
    /\ Elapsed = Timeout + PollInterval

\* C8: terminal states are absorbing: in success, error or timeout there is
\* no further request and no further sleep, and a poll answered "success" or
\* "error" leaves the poller in that state at once, so it was the last poll.
TerminalStatesAbsorbing ==
    /\ [](last_action["status"] \in {"success", "error"} =>
            poller = last_action["status"])
    /\ [][(poller \in Terminal)
              => (poller' = poller /\ polls' = polls /\ sleeps' = sleeps)]_vars
    /\ [][(polls' # polls \/ sleeps' # sleeps) => (poller \notin Terminal)]_vars

\* An error status was observed after some running polls.
ErrorAfterRunningWitness ==
    /\ poller = "error"
    /\ running_seen = 2
    /\ polls = 3
    /\ sleeps = 2

\* C9: when a poll is answered "error" the poller ends in the error state and
\* the error details it shows are the error member of that poll's action
\* record, unchanged; the progress is not set to 100 and no timeout is
\* declared.
ErrorPayloadVerbatim ==
    /\ last_action["status"] = "error" =>
          /\ poller = "error"
          /\ shown_error = last_action["error"]
          /\ completed = last_action["progress"]
    /\ poller = "error" => last_action["status"] = "error"

\* An error object with code and message has been shown.
ErrorObjectShownWitness ==
    /\ poller = "error"
    /\ last_action["error"] = [code |-> "server_error", message |-> "disk full"]
    /\ shown_error = last_action["error"]

\* C18: in every iteration the status is examined before the deadline: a
\* timeout is declared only at a poll whose status was neither "success" nor
\* "error"; a poll answered "success" or "error" ends the run in that state
\* also when more than Timeout seconds have passed; any other status, known
\* or not, is taken as still running: timeout if the deadline has passed,
\* else exactly one sleep of PollInterval seconds and then the next poll.
StatusExaminedBeforeDeadline ==
    /\ [](poller = "timeout" =>
            (last_action["status"] \notin {"success", "error"}
                /\ Elapsed > Timeout))
    /\ [](last_action["status"] \in {"success", "error"} =>
            poller = last_action["status"])
    /\ [][(polls' # polls /\ poller' \notin {"exit", "crash"}
              /\ last_action'["status"] \notin {"success", "error"})
             => (poller' = IF now' - start_time > Timeout
                           THEN "timeout" ELSE "sleep")]_vars
    /\ [](sleeps = IF poller = "poll" THEN polls ELSE polls - 1)
    /\ [][(sleeps' # sleeps)
             => (/\ poller = "sleep" /\ poller' = "poll"
                 /\ sleeps' = sleeps + 1 /\ polls' = polls
                 /\ now' = now + PollInterval)]_vars
    /\ [][(polls' # polls) => (poller = "poll" /\ polls' = polls + 1)]_vars

\* Two polls answered with a status the poller does not know, then "success"
\* at a poll that came back after the deadline.
SuccessPastDeadlineWitness ==
    /\ poller = "success"
    /\ Elapsed > Timeout
    /\ running_seen = 2
    /\ sleeps = 2

(***************************************************************************)
(* The poller against a provider that sends statuses and progress values   *)
(* in any order and no error details.                                      *)
(***************************************************************************)
PlainResponses ==
    FailingResponses
        \cup {Http(200, JsonBody("action" :> [id |-> 7, status |-> st,
                                              progress |-> pr, error |-> None])) :
                 st \in Statuses, pr \in {0, 100}}

PollPlain ==
    /\ PollOf(PlainResponses, Latencies)
    /\ UNCHANGED <<twinVars, sessionVars>>

NextPollPlain == PollPlain \/ Sleep

\* Every request returns and every sleep ends.
FairSpecPollPlain ==
    InitPoll /\ [][NextPollPlain]_vars /\ WF_vars(PollPlain) /\ WF_vars(Sleep)

\* The ways a run of the poller ends without a terminal state: sys.exit(1)
\* inside make_api_request, or an exception raised on what it returned.
Aborted == {"exit", "crash"}

\* C19: the poller always terminates: when every request returns and every
\* sleep ends, a run reaches success, error or timeout or is aborted by a
\* failed request, whatever statuses and progress values the provider sends;
\* once ended it stays in that one state; and it is never still polling or
\* sleeping later than one poll interval past the deadline.
PollerAlwaysTerminates ==
    /\ <>(poller \in Terminal \cup Aborted)
    /\ [][(poller \in Terminal \cup Aborted) => (poller' = poller)]_vars
    /\ [](poller \in {"poll", "sleep"} => Elapsed <= Timeout + PollInterval)
    /\ [](polls <= (Timeout \div PollInterval) + 2)

\* A run that was kept going up to the last poll the deadline leaves room
\* for, and ended there on an error status.
ErrorAtLastPollWitness ==
    /\ poller = "error"
    /\ sleeps = (Timeout \div PollInterval) + 1
    /\ running_seen = sleeps

(***************************************************************************)
(* get_servers (lines 107-115).                                            *)
(***************************************************************************)
\* The list handed on as the provider sent it.
AsListed(list) == list

\* sorted(..., key=name): a stable sort, least key first.
RECURSIVE InsertByName(_, _)
InsertByName(x, sorted) ==
    IF sorted = <<>> THEN <<x>>
    ELSE IF StrLess(x["name"], Head(sorted)["name"])
    THEN <<x>> \o sorted
    ELSE <<Head(sorted)>> \o InsertByName(x, Tail(sorted))

RECURSIVE SortByNameInto(_, _)
SortByNameInto(sorted, rest) ==
    IF rest = <<>> THEN sorted
    ELSE SortByNameInto(InsertByName(Head(rest), sorted), Tail(rest))

SortedByName(list) == SortByNameInto(<<>>, list)

\* One call of get_servers.
GetServersOf(responses) ==
    /\ \E response \in responses :
          LET out == make_api_request(response) IN
          IF out.kind = "exit"
          THEN \* sys.exit(1) inside make_api_request
               /\ servers_pc' = "exit"
               /\ UNCHANGED <<listed, servers>>
          ELSE IF out.value = None \/ "servers" \notin DOMAIN out.value
          THEN \* None["servers"]: TypeError; no such key: KeyError
               /\ servers_pc' = "crash"
               /\ UNCHANGED <<listed, servers>>
          ELSE /\ servers_pc' = "returned"
               /\ listed' = out.value["servers"]
               /\ servers' = SortedByName(out.value["servers"])
    /\ UNCHANGED <<apiVars, listVars, pollVars, twinVars>>

\* Servers of a project: names that differ in case only, a name that is a
\* prefix of another, two servers of one name.
ServerPool ==
    { Web1, Db12,
      [id |-> 3, name |-> <<"w","e","b">>],
      [id |-> 4, name |-> <<"d","b">>],
      [id |-> 5, name |-> <<"W">>] }

ServerLists == UNION {[1..n -> ServerPool] : n \in 0..MaxServers}

ServersResponses ==
    {Http(200, JsonBody("servers" :> list)) : list \in ServerLists}
        \cup {Http(200, JsonBody(EmptyDict))}

GetServers ==
    /\ servers_pc = "call"
    /\ GetServersOf(FailingResponses \cup ServersResponses)
    /\ UNCHANGED sessionVars

\* get_servers has been called and is about to issue its request.
StartServers ==
    /\ servers_pc = "call"
    /\ listed = <<>>
    /\ servers = <<>>

InitServers ==
    ApiIdle /\ ListIdle /\ PollIdle /\ TwinIdle /\ SessionIdle /\ StartServers

NextServers == GetServers

SpecServers == InitServers /\ [][NextServers]_vars

\* C16: for every server list the provider returns, get_servers returns the
\* same servers, none added, dropped or altered, ordered by name ascending:
\* of two adjacent elements the later name is never less than the earlier.
ServersSortedByName ==
    servers_pc = "returned" =>
        /\ Len(servers) = Len(listed)
        /\ \A s \in Range(listed) \cup Range(servers) :
               Count(s, servers) = Count(s, listed)
        /\ \A i \in 1..(Len(servers) - 1) :
               ~StrLess(servers[i + 1]["name"], servers[i]["name"])

\* An unsorted list with two servers of one name came back sorted, upper
\* case before lower case, the two "db" in the order they were listed.
ServersReorderedWitness ==
    /\ servers_pc = "returned"
    /\ listed = <<Db12, Web1, [id |-> 4, name |-> <<"d","b">>]>>
    /\ servers = <<Web1, Db12, [id |-> 4, name |-> <<"d","b">>]>>

(***************************************************************************)
(* Two runs of wait_for_snapshot_completion side by side: the provider     *)
(* answers both with the same status after the same time, and with a       *)
(* progress of its choice for each.                                        *)
(***************************************************************************)
FirstRunProgress  == {10, 100}
SecondRunProgress == {-5, 150}

TwinResponses ==
    FailingResponses
        \cup {Http(200, JsonBody("action" :> [id |-> 7, status |-> st,
                                              progress |-> pr, error |-> None])) :
                 st \in Statuses, pr \in FirstRunProgress}

\* One iteration of both runs: the first as in PollOf, the second on the same
\* response with its own progress value in it.
TwinPoll ==
    /\ PollOf(TwinResponses, Latencies)
    /\ IF twin_poller = "poll"
       THEN \E progress \in SecondRunProgress :
              /\ twin_polls' = twin_polls + 1
              /\ IF poller' \in {"exit", "crash"}
                 THEN /\ twin_poller' = poller'
                      /\ UNCHANGED twin_completed
                 ELSE LET action == [last_action' EXCEPT !["progress"] = progress]
                          next   == Outcome(action, now' - start_time)
                      IN  /\ twin_poller' = next
                          /\ twin_completed' = IF next = "success"
                                               THEN FinalProgress(progress)
                                               ELSE progress
       ELSE UNCHANGED twinVars
    /\ UNCHANGED sessionVars

\* Both runs sleep through the same five seconds.
TwinSleep ==
    /\ SleepFor(Oversleep)
    /\ twin_poller' = IF twin_poller = "sleep" THEN "poll" ELSE twin_poller
    /\ UNCHANGED <<twin_polls, twin_completed, sessionVars>>

StartTwin ==
    /\ twin_poller = "poll"
    /\ twin_polls = 0
    /\ twin_completed = 0

InitTwin ==
    ApiIdle /\ ListIdle /\ ServersIdle /\ SessionIdle /\ StartPolling /\ StartTwin

NextTwin == TwinPoll \/ TwinSleep

SpecTwin == InitTwin /\ [][NextTwin]_vars

\* C20: progress values do not steer the poller: two runs that are given the
\* same statuses at the same elapsed times and different progress values,
\* decreasing and out-of-range ones among them, are always in the same state
\* and have issued the same number of poll requests, so they end in the same
\* terminal state after the same number of polls; on success both progress
\* bars stand at 100, otherwise only the progress shown differs.
ProgressDoesNotSteer ==
    /\ twin_poller = poller
    /\ twin_polls = polls
    /\ poller = "success" => (twin_completed = completed)

\* Both runs ended on the error status of their third poll, the one showing a
\* progress of 10 and the other an out-of-range 150.
TwinsEndAlikeWitness ==
    /\ poller = "error"
    /\ twin_poller = "error"
    /\ polls = 3
    /\ twin_polls = 3
    /\ completed = 10
    /\ twin_completed = 150

(***************************************************************************)
(* The process: __main__ (lines 429-444), main_menu (329-369), manage_vm   *)
(* (371-416), display_snapshots (174-212), create_snapshot (253-273) and   *)
(* delete_snapshot (236-251).  proc is where the process stands:           *)
(*   startup      before the token test of line 432                        *)
(*   main_menu    main_menu about to call get_servers                      *)
(*   main_prompt  at the prompt of line 354                                *)
(*   vm_list      manage_vm inside display_snapshots                       *)
(*   vm_prompt    at the prompt of line 393                                *)
(*   polling      create_snapshot inside wait_for_snapshot_completion      *)
(*   press_enter  at "Press Enter to continue"                             *)
(*   exited       the process has ended                                    *)
(***************************************************************************)
\* The lines the operations print about their outcome (lines 297, 300, 306,
\* 269, 249, 251, 408).
Msg ==
    [ created       |-> "Snapshot created successfully!",
      failed        |-> "Snapshot creation failed.",
      timed_out     |-> "Snapshot creation timed out after 1 hour.",
      no_action_id  |-> "Failed to get action ID. Snapshot creation may have failed.",
      deleted       |-> "Snapshot deleted successfully.",
      delete_failed |-> "Failed to delete snapshot.",
      no_snapshots  |-> "No snapshots available to delete." ]

\* The placeholder taken for a token.
UnusableEmptyOnly(token) == token = ""

\* line 432: not API_TOKEN or API_TOKEN == "your_api_token_here"
Unusable(token) == token = "" \/ token = "your_api_token_here"

Call(method, what, id, outcome) ==
    [method |-> method, what |-> what, id |-> id, outcome |-> outcome]

\* sys.exit(status), or an exception nothing catches, or the end of the script
Exit(status, cause) ==
    /\ proc' = "exited"
    /\ exit_status' = <<status>>
    /\ exit_cause' = cause

Running == UNCHANGED <<exit_status, exit_cause>>

\* SystemExit caught at the boundary of every operation, as delete_snapshot
\* does.
PropagatesCrashOnly(op_state) == op_state = "crash"

\* An action that failed or timed out raised to the caller.
PropagatesFailedAction(op_state) ==
    op_state \in {"exit", "crash", "error", "timeout"}

\* An operation that ended in sys.exit(1) or in an exception takes the process
\* with it: get_servers, get_snapshots, create_snapshot and
\* wait_for_snapshot_completion catch nothing, nor do main_menu and manage_vm.
Propagates(op_state) == op_state \in {"exit", "crash"}

CauseOf(op_state) == IF op_state = "exit" THEN "api error" ELSE "crash"

OutcomeOf(op_state) == IF op_state = "exit" THEN "exit" ELSE "returned"

\* What the provider serves in a session.
Snap10 == Snapshot(10, Stamp("1")) @@ ("bound_to" :> 1)
Snap11 == Snapshot(11, Stamp("2"))
              @@ ("description" :> <<"d","b"," ","1","2"," ","w","e","b">>)

SessionServersResponses ==
    FailingResponses
        \cup {Http(200, JsonBody("servers" :> list)) :
                 list \in {<<>>, <<Web1>>, <<Db12, Web1>>}}
        \cup {Http(200, JsonBody(EmptyDict))}

SessionListingResponses ==
    FailingResponses
        \cup ListingResponses({<<>>, <<Snap10>>, <<Snap11, Snap10>>, <<SnapA>>},
                              {NoMeta, JInt(2)})

\* __main__, lines 432-437
Startup ==
    /\ proc = "startup"
    /\ IF Unusable(api_token)
       THEN Exit(1, "no token")
       ELSE proc' = "main_menu" /\ Running
    /\ UNCHANGED <<apiVars, listVars, pollVars, twinVars, serverVars,
                   api_token, use_keychain, deleteVars,
                   vm, vm_snapshots, n_requests,
                   last_call, trigger_reply, message>>

\* main_menu, lines 334-339: get_servers, and return when there are none
FetchServers ==
    /\ proc = "main_menu"
    /\ n_requests < MaxRequests
    /\ GetServersOf(SessionServersResponses)
    /\ n_requests' = n_requests + 1
    /\ last_call' = Call("GET", "servers", 0, OutcomeOf(servers_pc'))
    /\ IF Propagates(servers_pc')
       THEN Exit(1, CauseOf(servers_pc'))
       ELSE IF servers' = <<>>
       THEN Exit(0, "no servers")
       ELSE proc' = "main_prompt" /\ Running
    /\ UNCHANGED <<api_token, use_keychain, deleteVars,
                   vm, vm_snapshots, trigger_reply,
                   message>>

\* choice 'q', lines 356-358
MainQuit ==
    /\ proc = "main_prompt"
    /\ Exit(0, "quit")
    /\ UNCHANGED <<apiVars, listVars, pollVars, twinVars, serverVars,
                   api_token, use_keychain, deleteVars,
                   vm, vm_snapshots, n_requests,
                   last_call, trigger_reply, message>>

\* choice '0', lines 359-364, and store_api_key_in_keychain (311-327)
StoreKey ==
    /\ proc = "main_prompt"
    /\ IF use_keychain
       THEN \E stored \in BOOLEAN :
              api_token' = IF stored THEN "new-secret" ELSE api_token
       ELSE UNCHANGED api_token
    /\ proc' = "main_menu"
    /\ Running
    /\ UNCHANGED <<apiVars, listVars, pollVars, twinVars, serverVars,
                   use_keychain, deleteVars,
                   vm, vm_snapshots, n_requests, last_call,
                   trigger_reply, message>>

\* get_snapshots entered for the server s
BeginListing(s) ==
    /\ pc' = "fetch"
    /\ server' = s
    /\ page' = 1
    /\ all_snapshots' = <<>>
    /\ requests' = <<>>
    /\ received' = <<>>
    /\ reported' = <<>>
    /\ included' = <<>>
    /\ result' = <<>>

\* a VM's number chosen, lines 365-367, up to manage_vm's call of
\* display_snapshots (line 380)
SelectVm ==
    /\ proc = "main_prompt"
    /\ \E i \in 1..Len(servers) :
          /\ vm' = servers[i]
          /\ BeginListing(servers[i])
    /\ proc' = "vm_list"
    /\ Running
    /\ UNCHANGED <<apiVars, pollVars, twinVars, serverVars, api_token,
                   use_keychain, deleteVars,
                   vm_snapshots, n_requests, last_call,
                   trigger_reply, message>>

\* one page request of the listing, with nothing between it and the process
SessionFetchPage ==
    /\ proc = "vm_list"
    /\ n_requests < MaxRequests
    /\ FetchPageOf(SessionListingResponses)
    /\ n_requests' = n_requests + 1
    /\ last_call' = Call("GET", "images", page, OutcomeOf(pc'))
    /\ IF Propagates(pc')
       THEN Exit(1, CauseOf(pc'))
       ELSE UNCHANGED <<proc, exit_status, exit_cause>>
    /\ UNCHANGED <<api_token, use_keychain, deleteVars,
                   vm, vm_snapshots, trigger_reply,
                   message>>

\* display_snapshots after get_snapshots, lines 186-212: the table splits
\* every created at 'T' (IndexError when there is none) and the list goes to
\* manage_vm.
Display ==
    /\ proc = "vm_list"
    /\ pc = "done"
    /\ IF \E i \in 1..Len(result) : ~In(<<"T">>, result[i]["created"])
       THEN /\ Exit(1, "crash")
            /\ UNCHANGED <<listVars, vm_snapshots>>
       ELSE /\ vm_snapshots' = result
            /\ proc' = "vm_prompt"
            /\ Running
            /\ pc' = "idle"
            /\ server' = NoServer
            /\ page' = 0
            /\ all_snapshots' = <<>>
            /\ requests' = <<>>
            /\ received' = <<>>
            /\ reported' = <<>>
            /\ included' = <<>>
            /\ result' = <<>>
    /\ UNCHANGED <<apiVars, pollVars, twinVars, serverVars, api_token,
                   use_keychain, deleteVars,
                   vm, n_requests, last_call, trigger_reply,
                   message>>

\* What the provider may answer to the create_image trigger: an action with
\* an id, with the id 0 or null, without id, a null action, no action at all.
TriggerReplies ==
    { "action" :> ("id" :> JInt(7)),
      "action" :> ("id" :> JInt(0)),
      "action" :> ("id" :> JNull),
      "action" :> EmptyDict,
      "action" :> JNull,
      EmptyDict }

TriggerResponses ==
    FailingResponses \cup {Http(201, JsonBody(r)) : r \in TriggerReplies}

Raised == [t |-> "raised"]

\* response["action"]["id"] (line 267): subscripting None raises TypeError, a
\* missing key raises KeyError.
ActionIdOf(value) ==
    IF value = None THEN Raised
    ELSE IF "action" \notin DOMAIN value THEN Raised
    ELSE IF value["action"] = JNull THEN Raised
    ELSE IF "id" \notin DOMAIN value["action"] THEN Raised
    ELSE value["action"]["id"]

\* not action_id (line 268)
Falsy(v) == v = JNull \/ v = JInt(0)

\* wait_for_snapshot_completion entered, lines 282-286
BeginPolling ==
    /\ poller' = "poll"
    /\ now' \in {1000}
    /\ start_time' = now'
    /\ polls' = 0
    /\ sleeps' = 0
    /\ running_seen' = 0
    /\ last_action' = NoAction
    /\ completed' = 0
    /\ shown_error' = None

\* choice '1', lines 395-397: create_snapshot up to its return or its call of
\* wait_for_snapshot_completion (lines 260-273)
CreateSnapshot ==
    /\ proc = "vm_prompt"
    /\ n_requests < MaxRequests
    /\ \E response \in TriggerResponses :
          LET out == make_api_request(response) IN
          IF out.kind = "exit"
          THEN /\ last_call' = Call("POST", "create_image", vm.id, "exit")
               /\ IF Propagates("exit")
                  THEN Exit(1, "api error")
                  ELSE proc' = "press_enter" /\ Running
               /\ UNCHANGED <<trigger_reply, message, pollVars>>
          ELSE LET action_id == ActionIdOf(out.value) IN
               /\ last_call' = Call("POST", "create_image", vm.id, "returned")
               /\ trigger_reply' = out.value
               /\ IF action_id = Raised
                  THEN /\ Exit(1, "crash")
                       /\ UNCHANGED <<message, pollVars>>
                  ELSE IF Falsy(action_id)
                  THEN /\ message' = Msg.no_action_id
                       /\ proc' = "press_enter"
                       /\ Running
                       /\ UNCHANGED pollVars
                  ELSE /\ BeginPolling
                       /\ proc' = "polling"
                       /\ Running
                       /\ UNCHANGED message
    /\ n_requests' = n_requests + 1
    /\ UNCHANGED <<apiVars, listVars, twinVars, serverVars, api_token,
                   use_keychain, deleteVars, vm, vm_snapshots>>

SessionActions ==
    {[id |-> 7, status |-> st, progress |-> 60, error |-> None] :
        st \in Statuses}
      \cup {[id |-> 7, status |-> "error", progress |-> 60,
             error |-> [code |-> "server_error", message |-> "disk full"]]}

SessionActionResponses ==
    FailingResponses
        \cup {Http(200, JsonBody("action" :> a)) : a \in SessionActions}

\* A poll answers at once or after more than an hour.
SessionLatencies == {0, 3601}

\* lines 297, 300, 306
PollerMessage(state) ==
    CASE state = "success" -> Msg.created
      [] state = "error"   -> Msg.failed
      [] state = "timeout" -> Msg.timed_out

\* one iteration of the poller; when it returns, create_snapshot returns and
\* manage_vm asks for Enter (line 398)
SessionPoll ==
    /\ proc = "polling"
    /\ n_requests < MaxRequests
    /\ PollOf(SessionActionResponses, SessionLatencies)
    /\ n_requests' = n_requests + 1
    /\ last_call' = Call("GET", "action", 7, OutcomeOf(poller'))
    /\ IF Propagates(poller')
       THEN Exit(1, CauseOf(poller')) /\ UNCHANGED message
       ELSE IF poller' \in {"success", "error", "timeout"}
       THEN /\ proc' = "press_enter"
            /\ message' = PollerMessage(poller')
            /\ Running
       ELSE UNCHANGED <<proc, exit_status, exit_cause, message>>
    /\ UNCHANGED <<twinVars, api_token, use_keychain, deleteVars,
                   vm, vm_snapshots,
                   trigger_reply>>

\* SystemExit let through.
delete_snapshot_uncaught(response) ==
    IF make_api_request(response).kind = "exit"
    THEN [raised |-> TRUE, message |-> ""]
    ELSE [raised |-> FALSE, message |-> Msg.deleted]

\* delete_snapshot (lines 243-251): the request inside try, SystemExit caught
delete_snapshot(response) ==
    IF make_api_request(response).kind = "exit"
    THEN [raised |-> FALSE, message |-> Msg.delete_failed]
    ELSE [raised |-> FALSE, message |-> Msg.deleted]

DeleteResponses ==
    FailingResponses \cup {Http(200, JsonBody(EmptyDict))}

\* the answers Prompt.ask accepts at line 404 (choices=['y', 'n'])
ConfirmAnswers == {<<"y">>, <<"n">>}

\* Any answer taken for a yes.
ConfirmedByAnyAnswer(answer) == TRUE

\* line 405: confirm.lower() == 'y'
Confirmed(answer) == Lower(answer) = <<"y">>

\* choice '2' with snapshots on display, a number and 'y' (lines 399-406)
DeleteConfirmed ==
    /\ proc = "vm_prompt"
    /\ n_requests < MaxRequests
    /\ \E snapshot_index \in 1..Len(vm_snapshots), answer \in ConfirmAnswers,
          response \in DeleteResponses :
          LET ended == delete_snapshot(response)
          IN  /\ snapshot_id' = vm_snapshots[snapshot_index]["id"]
              /\ confirm' = answer
              /\ Confirmed(answer)
              /\ last_call' = Call("DELETE", "image", snapshot_id',
                                   OutcomeOf(make_api_request(response).kind))
              /\ message' = ended.message
              /\ IF ended.raised
                 THEN Exit(1, "api error")
                 ELSE proc' = "press_enter" /\ Running
    /\ n_requests' = n_requests + 1
    /\ UNCHANGED <<apiVars, listVars, pollVars, twinVars, serverVars,
                   api_token, use_keychain, vm, vm_snapshots, trigger_reply>>

\* choice '2', a number and 'n' (lines 399-405)
DeleteDeclined ==
    /\ proc = "vm_prompt"
    /\ \E snapshot_index \in 1..Len(vm_snapshots), answer \in ConfirmAnswers :
          /\ snapshot_id' = vm_snapshots[snapshot_index]["id"]
          /\ confirm' = answer
          /\ ~Confirmed(answer)
    /\ proc' = "press_enter"
    /\ Running
    /\ UNCHANGED <<apiVars, listVars, pollVars, twinVars, serverVars,
                   api_token, use_keychain, vm, vm_snapshots, n_requests,
                   last_call, trigger_reply, message>>

\* choice '2' with no snapshots on display (lines 407-408)
DeleteNothing ==
    /\ proc = "vm_prompt"
    /\ vm_snapshots = <<>>
    /\ message' = Msg.no_snapshots
    /\ proc' = "press_enter"
    /\ Running
    /\ UNCHANGED <<apiVars, listVars, pollVars, twinVars, serverVars,
                   api_token, use_keychain, deleteVars,
                   vm, vm_snapshots, n_requests,
                   last_call, trigger_reply>>

\* Enter at lines 398 and 409: manage_vm's loop starts over with
\* display_snapshots (line 380)
PressEnter ==
    /\ proc = "press_enter"
    /\ proc' = "vm_list"
    /\ Running
    /\ BeginListing(vm)
    /\ poller' = "idle"
    /\ now' = 0
    /\ start_time' = 0
    /\ polls' = 0
    /\ sleeps' = 0
    /\ running_seen' = 0
    /\ last_action' = NoAction
    /\ completed' = 0
    /\ shown_error' = None
    /\ trigger_reply' = NoReply
    /\ UNCHANGED <<apiVars, twinVars, serverVars, api_token, use_keychain, deleteVars,
                   vm,
                   vm_snapshots, n_requests, last_call, message>>

\* choice '3' (lines 410-411): back in main_menu's loop
ReturnToMain ==
    /\ proc = "vm_prompt"
    /\ proc' = "main_menu"
    /\ Running
    /\ vm' = NoServer
    /\ vm_snapshots' = <<>>
    /\ snapshot_id' = 0
    /\ confirm' = <<>>
    /\ UNCHANGED <<apiVars, listVars, pollVars, twinVars, serverVars,
                   api_token, use_keychain, n_requests, last_call,
                   trigger_reply, message>>

\* choice 'q' (lines 412-414)
VmQuit ==
    /\ proc = "vm_prompt"
    /\ Exit(0, "quit")
    /\ UNCHANGED <<apiVars, listVars, pollVars, twinVars, serverVars,
                   api_token, use_keychain, deleteVars,
                   vm, vm_snapshots, n_requests,
                   last_call, trigger_reply, message>>

\* Ctrl-C while main_menu runs (lines 439-444)
Interrupt ==
    /\ proc \notin {"idle", "startup", "exited"}
    /\ Exit(1, "interrupt")
    /\ UNCHANGED <<apiVars, listVars, pollVars, twinVars, serverVars,
                   api_token, use_keychain, deleteVars,
                   vm, vm_snapshots, n_requests,
                   last_call, trigger_reply, message>>

\* The module has been loaded (lines 63-68): API_TOKEN is the keychain's or
\* the environment's token or the placeholder, USE_KEYCHAIN the platform.
StartSession ==
    /\ proc = "startup"
    /\ exit_status = <<>>
    /\ exit_cause = ""
    /\ api_token \in {"", "your_api_token_here", "secret"}
    /\ use_keychain \in BOOLEAN
    /\ vm = NoServer
    /\ vm_snapshots = <<>>
    /\ n_requests = 0
    /\ last_call = NoCall
    /\ trigger_reply = NoReply
    /\ message = ""
    /\ snapshot_id = 0
    /\ confirm = <<>>

InitSession ==
    ApiIdle /\ ListIdle /\ PollIdle /\ TwinIdle /\ ServersIdle /\ StartSession

NextSession ==
    \/ Startup
    \/ FetchServers
    \/ MainQuit
    \/ StoreKey
    \/ SelectVm
    \/ SessionFetchPage
    \/ Resolve
    \/ Display
    \/ CreateSnapshot
    \/ SessionPoll
    \/ Sleep
    \/ DeleteConfirmed
    \/ DeleteDeclined
    \/ DeleteNothing
    \/ PressEnter
    \/ ReturnToMain
    \/ VmQuit
    \/ Interrupt

SpecSession == InitSession /\ [][NextSession]_vars

(***************************************************************************)
(* Claims about the process.                                               *)
(***************************************************************************)
\* The last request was made by the snapshot listing, the create trigger or
\* the action poller, and make_api_request ended it with sys.exit(1).
OperationFailed ==
    /\ last_call.outcome = "exit"
    /\ last_call.what \in {"images", "create_image", "action"}

\* C11: a failed request is fatal to the operation that made it and is never
\* retried: after a request of the listing, of the create trigger or of the
\* poller has failed, no request is issued any more (not the same one again,
\* no later page, no later poll), the operation has produced nothing (the
\* listing no result and no inclusion, the trigger no poller, the poller no
\* terminal state), and the process has ended with status 1.
FailedRequestEndsOperation ==
    /\ [](OperationFailed =>
            /\ proc = "exited"
            /\ exit_status = <<1>>
            /\ (last_call.what = "images") =>
                  (pc = "exit" /\ result = <<>> /\ included = <<>>)
            /\ (last_call.what = "create_image") =>
                  (poller = "idle" /\ polls = 0)
            /\ (last_call.what = "action") => (poller = "exit"))
    /\ [][OperationFailed
             => (/\ n_requests' = n_requests
                 /\ requests' = requests
                 /\ polls' = polls
                 /\ vm_snapshots' = vm_snapshots)]_vars

\* The second page of a listing failed: the first page's snapshots are held
\* in all_snapshots and nothing was returned.
SecondPageFailedWitness ==
    /\ OperationFailed
    /\ last_call.what = "images"
    /\ requests = <<1, 2>>
    /\ all_snapshots # <<>>
    /\ result = <<>>

\* C12: delete_snapshot never lets a failed request through: when the DELETE
\* request fails, the failure is reported, delete_snapshot returns and the
\* process goes on to "Press Enter" without exiting; success is reported only
\* when the request did not fail; from "Press Enter" the process goes back to
\* the listing unless the operator interrupts it.
DeleteFailureStaysLocal ==
    /\ [][(last_call'.method = "DELETE" /\ n_requests' # n_requests)
             => (/\ proc' = "press_enter"
                 /\ exit_status' = <<>>
                 /\ message' = IF last_call'.outcome = "exit"
                               THEN Msg.delete_failed ELSE Msg.deleted)]_vars
    /\ [][(proc = "press_enter" /\ proc' # "press_enter")
             => (proc' = "vm_list" \/ exit_cause' = "interrupt")]_vars

\* A delete failed, and the VM menu is on display again.
MenuAfterFailedDeleteWitness ==
    /\ proc = "vm_prompt"
    /\ message = Msg.delete_failed
    /\ last_call.what = "images"
    /\ exit_status = <<>>

\* The trigger's response carries no action identifier: no action record, a
\* null one, one without id, or an id that is null or zero.
NoActionId(reply) ==
    \/ reply = None
    \/ "action" \notin DOMAIN reply
    \/ reply["action"] = JNull
    \/ "id" \notin DOMAIN reply["action"]
    \/ reply["action"]["id"] \in {JNull, JInt(0)}

\* C13: when the response to the create_image trigger carries no action
\* identifier (action record or id absent, null or zero), create_snapshot
\* reports the failure, issues no poll, returns, and the process keeps
\* running; the poller is started only when an identifier was returned.
NoActionIdFailsLocally ==
    /\ (trigger_reply # NoReply /\ NoActionId(trigger_reply)) =>
          /\ message = Msg.no_action_id
          /\ poller = "idle"
          /\ polls = 0
          /\ (proc = "press_enter" \/ exit_cause = "interrupt")
    /\ (poller # "idle") =>
          (trigger_reply # NoReply /\ ~NoActionId(trigger_reply))

\* C14 as stated: exit status 1 when there is no usable credential at
\* startup, before any request, and whenever any request of any command ends
\* in an authentication, decode or provider error; exit status 0 on quit.
ExitStatusOnEveryApiError ==
    /\ (exit_cause = "no token") => (exit_status = <<1>> /\ n_requests = 0)
    /\ (last_call.outcome = "exit") => (proc = "exited" /\ exit_status = <<1>>)
    /\ (exit_cause = "quit") => (exit_status = <<0>>)

\* C14, amended: the process ends with status 1 at startup, before any
\* request, when the token is empty or the placeholder; it ends with status 1
\* whenever a request other than delete_snapshot's DELETE ends in an
\* authentication, decode or provider error; a failed DELETE does not end it;
\* quit at either menu ends it with status 0.
ExitStatusExceptCaughtDelete ==
    /\ [][(proc = "startup")
             => IF api_token \in {"", "your_api_token_here"}
                THEN /\ proc' = "exited"
                     /\ exit_status' = <<1>>
                     /\ n_requests' = 0
                ELSE exit_status' = <<>>]_vars
    /\ []((last_call.outcome = "exit" /\ last_call.method # "DELETE") =>
            (proc = "exited" /\ exit_status = <<1>>))
    /\ [][(last_call'.outcome = "exit" /\ last_call'.method = "DELETE"
              /\ n_requests' # n_requests)
             => (exit_status' = <<>>)]_vars
    /\ [](exit_cause = "quit" => exit_status = <<0>>)
    /\ [][(exit_cause' = "quit" /\ exit_cause # "quit")
             => (proc \in {"main_prompt", "vm_prompt"})]_vars

\* The process ended with status 1 on a failed poll of a create command.
ExitOnFailedPollWitness ==
    /\ proc = "exited"
    /\ exit_status = <<1>>
    /\ exit_cause = "api error"
    /\ last_call.what = "action"
    /\ polls = 2

\* C15: an action that ends in error or in timeout is not raised to the
\* process: create_snapshot returns, the process does not exit and asks for
\* Enter, and from there the VM menu starts over: it fetches the snapshot
\* list of the same server from page 1 and displays what came back.
FailedActionReturnsToMenu ==
    /\ [][(proc = "polling" /\ poller' \in {"error", "timeout"})
             => (proc' = "press_enter" /\ exit_status' = <<>>)]_vars
    /\ [][(proc = "press_enter" /\ proc' # "press_enter")
             => (\/ /\ proc' = "vm_list"
                    /\ exit_status' = <<>>
                    /\ pc' = "fetch"
                    /\ page' = 1
                    /\ requests' = <<>>
                    /\ server' = vm
                 \/ exit_cause' = "interrupt")]_vars
    /\ [][(proc = "vm_list" /\ proc' = "vm_prompt")
             => (pc = "done" /\ vm_snapshots' = result)]_vars

\* The action timed out, and the VM menu is on display again with a list
\* fetched after the timeout.
MenuAfterTimeoutWitness ==
    /\ proc = "vm_prompt"
    /\ message = Msg.timed_out
    /\ last_call.what = "images"
    /\ exit_status = <<>>

\* A step in which the process issues a DELETE request.
DeleteIssued ==
    /\ last_call'.method = "DELETE"
    /\ n_requests' # n_requests

\* C21: in any session a DELETE request is issued only from the VM menu, only
\* when the answer to the confirmation was 'y', and only for the snapshot the
\* confirmation named, whose id is in the list on display; that list is the
\* one display_snapshots returned last for the selected VM (the menu is
\* reached only through a display, the list changes only there or when the
\* menu is left, and all of it passed the filter for that VM); the answer 'n'
\* or an empty list issues no DELETE; and a delete choice issues one request,
\* after which the process waits for Enter.
OnlyConfirmedListedDeletes ==
    /\ [][DeleteIssued
             => (/\ proc = "vm_prompt"
                 /\ proc' = "press_enter"
                 /\ confirm' = <<"y">>
                 /\ snapshot_id' = last_call'.id
                 /\ \E i \in 1..Len(vm_snapshots) :
                       vm_snapshots[i]["id"] = last_call'.id
                 /\ vm_snapshots' = vm_snapshots
                 /\ vm' = vm
                 /\ n_requests' = n_requests + 1)]_vars
    /\ [][(confirm' = <<"n">> \/ vm_snapshots = <<>>) => ~DeleteIssued]_vars
    /\ [][(proc' = "vm_prompt" /\ proc # "vm_prompt")
             => (/\ proc = "vm_list"
                 /\ pc = "done"
                 /\ server = vm
                 /\ vm_snapshots' = result)]_vars
    /\ [][(vm_snapshots' # vm_snapshots)
             => (\/ proc = "vm_list" /\ proc' = "vm_prompt"
                 \/ proc = "vm_prompt" /\ proc' = "main_menu"
                       /\ vm_snapshots' = <<>>)]_vars
    /\ [](\A i \in 1..Len(vm_snapshots) :
            IncludeReason(vm_snapshots[i], vm.id, vm.name) # NoReason)

\* The second of two displayed snapshots was deleted on 'y', after an earlier
\* command of the same VM menu.
ConfirmedDeleteWitness ==
    /\ proc = "press_enter"
    /\ last_call = Call("DELETE", "image", 11, "returned")
    /\ confirm = <<"y">>
    /\ snapshot_id = 11
    /\ Len(vm_snapshots) = 2
    /\ n_requests >= 4

====
